---- MODULE Spec2Model ----
(***************************************************************************)
(* Model of example/estimate.py: a polling script that obtains an         *)
(* OAuth 2.0 credential (reusing the one stored in a YAML file while it   *)
(* is unexpired, otherwise running the interactive authorization-code     *)
(* flow and persisting the new one), requests a ride estimate in both     *)
(* directions between two named places, prints a one-line summary, sleeps *)
(* and repeats until interrupted.                                         *)
(*                                                                        *)
(* The ride-hailing client library, the YAML library, the console and the *)
(* clock are the environment: each of their calls is one step whose       *)
(* outcome (a value or a raised exception) is chosen nondeterministically.*)
(***************************************************************************)
EXTENDS Integers, Sequences, FiniteSets, TLC

(***************************************************************************)
(* Bounds of the model.                                                   *)
(***************************************************************************)
\* number of get_estimate calls the main loop is followed for
MaxIter == 3
\* seconds of blocking I/O (console, file, HTTP) accounted for beyond the sleeps
MaxDrift == 1

(***************************************************************************)
(* Program constants.                                                     *)
(***************************************************************************)
\* time.sleep(300)
SleepSeconds == 300
\* seat_count=1
SeatCount == 1

\* places: latitude/longitude in micro-degrees
places ==
    [p \in {"home", "work"} |->
        IF p = "home" THEN [lat |-> 34051876, long |-> -118461077]
                      ELSE [lat |-> 33992140, long |-> -118473471]]

\* place names a caller may pass to get_estimate ("gym" is not in places)
PlaceNames == {"home", "work", "gym"}

(***************************************************************************)
(* YAML scalars and documents.  A value is tagged with its YAML type, so  *)
(* that values of different Python types stay comparable.                 *)
(***************************************************************************)
YStr(s) == [tag |-> "str", s |-> s, n |-> 0]
YInt(n) == [tag |-> "int", s |-> "", n |-> n]
YList(s) == [tag |-> "seq", s |-> s, n |-> 0]

\* the keys of credential_data, in the order safe_dump writes them (sorted)
CredentialKeys ==
    << "access_token", "client_id", "client_secret", "expires_in_seconds",
       "grant_type", "redirect_url", "refresh_token", "scopes" >>

Range(f) == {f[i] : i \in DOMAIN f}

\* safe_dump(data, default_flow_style=False): one "key: value" line per key,
\* keys sorted
safe_dump(data) ==
    LET keys == SelectSeq(CredentialKeys, LAMBDA k : k \in DOMAIN data)
    IN  [i \in 1..Len(keys) |-> [key |-> keys[i], val |-> data[keys[i]]]]

\* a line safe_load cannot parse
BadLine == [key |-> "", val |-> YStr("{")]

\* whether safe_load raises on the text
YamlError(text) == \E i \in DOMAIN text : text[i].key = ""

\* safe_load(text) of a parsable text: None for an empty document, else the
\* mapping of its lines
NoneValue == [isNone |-> TRUE, dict |-> << >>]

safe_load(text) ==
    IF text = << >> THEN NoneValue
    ELSE [isNone |-> FALSE,
          dict |-> [k \in {text[i].key : i \in DOMAIN text} |->
                       (CHOOSE l \in Range(text) : l.key = k).val]]

(***************************************************************************)
(* Credentials and clients.                                               *)
(***************************************************************************)
\* app credentials returned by import_app_credentials()
AppCredentials ==
    [client_id |-> "app-id", client_secret |-> "app-secret",
     redirect_url |-> "http://localhost/cb", scopes |-> "request"]

\* access tokens the authorization server may issue
AccessTokens == {"token-a", "token-b"}

\* token lifetimes the authorization server may grant, in seconds
Lifetimes == {0, SleepSeconds, SleepSeconds + 1, 3 * SleepSeconds}

\* session.oauth2credential after a successful exchange at time t: the
\* expiry is an absolute timestamp, the scopes are a set
SessionCredential(token, expiry) ==
    [k \in Range(CredentialKeys) |->
        CASE k = "client_id" -> YStr(AppCredentials.client_id)
          [] k = "redirect_url" -> YStr(AppCredentials.redirect_url)
          [] k = "access_token" -> YStr(token)
          [] k = "expires_in_seconds" -> YInt(expiry)
          [] k = "scopes" -> [tag |-> "set", s |-> AppCredentials.scopes, n |-> 0]
          [] k = "grant_type" -> YStr("authorization_code")
          [] k = "client_secret" -> YStr(AppCredentials.client_secret)
          [] k = "refresh_token" -> YStr("refresh")]

\* variant of credential_data: the expiry left out
credential_data_NoExpiry(credential) ==
    [k \in Range(CredentialKeys) \ {"expires_in_seconds"} |->
        IF k = "scopes" THEN YList(credential[k].s) ELSE credential[k]]

\* credential_data: the eight fields copied from the credential, the scopes
\* converted to a list
credential_data(credential) ==
    [k \in Range(CredentialKeys) |->
        IF k = "scopes" THEN YList(credential[k].s) ELSE credential[k]]

\* an API client holding a credential; NoClient is Python's None
NoClient == [none |-> TRUE, credential |-> << >>]

UberRidesClient(credential) == [none |-> FALSE, credential |-> credential]

\* the file at utils.STORAGE_FILENAME
NoFile == [exists |-> FALSE, text |-> << >>]

FileWith(text) == [exists |-> TRUE, text |-> text]

(***************************************************************************)
(* Requests and responses of the ride-hailing API.                        *)
(***************************************************************************)
\* fare display strings the API may quote
Quotes == {"$10", "$12"}

NoRequest == [product_id |-> "", start |-> [lat |-> 0, long |-> 0],
              end |-> [lat |-> 0, long |-> 0], seat_count |-> 0]

NoResponse == [request |-> NoRequest, hasFare |-> FALSE, display |-> ""]

\* the arguments _get_estimate_response passes to estimate_ride
EstimateRequest(prods, orig, dest) ==
    [product_id |-> prods[1],
     start |-> [lat |-> orig.lat, long |-> orig.long],
     end |-> [lat |-> dest.lat, long |-> dest.long],
     seat_count |-> SeatCount]

\* the endpoints of the d-th call of _get_estimate_response in get_estimate
LegOrig(d, name1, name2) == IF d = 1 THEN places[name1] ELSE places[name2]

LegDest(d, name1, name2) == IF d = 1 THEN places[name2] ELSE places[name1]

(***************************************************************************)
(* Console output.                                                        *)
(***************************************************************************)
TextLine(kind) ==
    [kind |-> kind, time |-> 0, place1 |-> "", place2 |-> "",
     price1 |-> "", price2 |-> ""]

\* variant of the summary: the two prices exchanged
SummaryLine_Swapped(t, name1, name2, r1, r2) ==
    [kind |-> "summary", time |-> t, place1 |-> name1, place2 |-> name2,
     price1 |-> r2.display, price2 |-> r1.display]

\* '{time}: {place1}->{place2}: {price1}, {place2}->{place1}: {price2}'
SummaryLine(t, name1, name2, r1, r2) ==
    [kind |-> "summary", time |-> t, place1 |-> name1, place2 |-> name2,
     price1 |-> r1.display, price2 |-> r2.display]

\* _print_detail(products1, response1); _print_detail(products2, response2)
DetailLines(isDetail) ==
    IF isDetail THEN << TextLine("detail"), TextLine("detail") >> ELSE << >>

(***************************************************************************)
(* State.                                                                 *)
(***************************************************************************)
VARIABLES
    pc,          \* where the process is
    name_orig,   \* get_estimate's arguments
    name_dest,
    detail,
    file,        \* the credential file
    storage,     \* get_estimate's locals
    api_client,
    result,      \* authorization_code_grant_flow's local: the pasted URL
    products,    \* products1, products2
    response,    \* response1, response2
    out,         \* lines printed during the current get_estimate call
    raised,      \* the exception last raised in the current call, and where
    exit,        \* how the process ended
    now,         \* int(time.time())
    iter         \* get_estimate calls started so far

vars == << pc, name_orig, name_dest, detail, file, storage, api_client, result,
           products, response, out, raised, exit, now, iter >>

Running == [kind |-> "running", msg |-> ""]

\* the process exited through sys.exit(msg)
SysExit(msg) == [kind |-> "SystemExit", msg |-> msg]

\* an exception no handler catches: the interpreter prints a traceback
Uncaught(error) == [kind |-> "uncaught", msg |-> error]

NoRaise == [at |-> "", error |-> ""]

\* variant of the main loop: no except clause for KeyboardInterrupt
MainHandler_NoCatch(error, msg) ==
    IF error = "SystemExit" THEN SysExit(msg) ELSE Uncaught(error)

\* what the main loop makes of an exception leaving get_estimate or the
\* sleep: except KeyboardInterrupt: sys.exit('exiting by user'); SystemExit
\* and every other exception pass through
MainHandler(error, msg) ==
    IF error = "KeyboardInterrupt" THEN SysExit("exiting by user")
    ELSE IF error = "SystemExit" THEN SysExit(msg)
    ELSE Uncaught(error)

\* an exception raised at a call site with no handler inside get_estimate
Propagate(site, error, msg) ==
    /\ raised' = [at |-> site, error |-> error]
    /\ pc' = "done"
    /\ exit' = MainHandler(error, msg)

\* expiry timestamps a credential file found at start may carry
StartExpiries == {-1, 0, 1, SleepSeconds + 1}

\* what the credential file may hold when the script starts
StartFiles ==
    {NoFile, FileWith(<< >>), FileWith(<< BadLine >>),
     FileWith(safe_dump([k \in {"access_token"} |-> YStr("token-a")]))}
    \cup {FileWith(safe_dump(credential_data(SessionCredential("token-a", e)))) :
            e \in StartExpiries}

Init ==
    /\ pc = "call"
    /\ name_orig \in PlaceNames
    /\ name_dest \in PlaceNames
    /\ detail \in BOOLEAN
    /\ file \in StartFiles
    /\ storage = NoneValue
    /\ api_client = NoClient
    /\ result = ""
    /\ products = [d \in {1, 2} |-> << >>]
    /\ response = [d \in {1, 2} |-> NoResponse]
    /\ out = << >>
    /\ raised = NoRaise
    /\ exit = Running
    /\ now = 0
    /\ iter = 0

(***************************************************************************)
(* The main loop and get_estimate.                                        *)
(***************************************************************************)
\* while True: try: get_estimate(...)   -- enters a new call
Call ==
    /\ pc = "call"
    /\ iter < MaxIter
    /\ iter' = iter + 1
    /\ pc' = "places"
    /\ storage' = NoneValue
    /\ api_client' = NoClient
    /\ result' = ""
    /\ products' = [d \in {1, 2} |-> << >>]
    /\ response' = [d \in {1, 2} |-> NoResponse]
    /\ out' = << >>
    /\ raised' = NoRaise
    /\ UNCHANGED << name_orig, name_dest, detail, file, exit, now >>

\* variant of the place test: both names must be unknown
UnknownPlace_Both(name1, name2) ==
    name1 \notin DOMAIN places /\ name2 \notin DOMAIN places

\* name_orig not in places or name_dest not in places
UnknownPlace(name1, name2) ==
    name1 \notin DOMAIN places \/ name2 \notin DOMAIN places

CheckPlaces ==
    /\ pc = "places"
    /\ IF UnknownPlace(name_orig, name_dest)
       THEN Propagate("sys.exit", "SystemExit",
                      "one or both unknown place names")
       ELSE /\ pc' = "load"
            /\ UNCHANGED << raised, exit >>
    /\ UNCHANGED << name_orig, name_dest, detail, file, storage, api_client,
                    result, products, response, out, now, iter >>

\* if os.path.exists(...): storage = safe_load(storage_file)
LoadStorage ==
    /\ pc = "load"
    /\ IF file.exists /\ YamlError(file.text)
       THEN /\ Propagate("safe_load", "YAMLError", "")
            /\ UNCHANGED storage
       ELSE /\ pc' = "decide"
            /\ storage' = IF file.exists THEN safe_load(file.text) ELSE NoneValue
            /\ UNCHANGED << raised, exit >>
    /\ UNCHANGED << name_orig, name_dest, detail, file, api_client, result,
                    products, response, out, now, iter >>

\* variants of the reuse test: the comparison reversed, the clock not
\* consulted, the comparison not strict
ShouldReuse_Reversed(st, t) ==
    /\ ~st.isNone
    /\ DOMAIN st.dict # {}
    /\ "expires_in_seconds" \in DOMAIN st.dict
    /\ t > st.dict["expires_in_seconds"].n

ShouldReuse_NoClock(st, t) ==
    /\ ~st.isNone
    /\ DOMAIN st.dict # {}
    /\ "expires_in_seconds" \in DOMAIN st.dict

ShouldReuse_NotStrict(st, t) ==
    /\ ~st.isNone
    /\ DOMAIN st.dict # {}
    /\ "expires_in_seconds" \in DOMAIN st.dict
    /\ t <= st.dict["expires_in_seconds"].n

\* storage and 'expires_in_seconds' in storage
\*         and int(time.time()) < storage['expires_in_seconds']
ShouldReuse(st, t) ==
    /\ ~st.isNone
    /\ DOMAIN st.dict # {}
    /\ "expires_in_seconds" \in DOMAIN st.dict
    /\ t < st.dict["expires_in_seconds"].n

Decide ==
    /\ pc = "decide"
    /\ IF ShouldReuse(storage, now)
       THEN /\ api_client' = UberRidesClient(storage.dict)
            /\ pc' = "products1"
       ELSE /\ pc' = "prompt"
            /\ UNCHANGED api_client
    /\ UNCHANGED << name_orig, name_dest, detail, file, storage, result,
                    products, response, out, raised, exit, now, iter >>

(***************************************************************************)
(* authorization_code_grant_flow.                                         *)
(***************************************************************************)
\* what the user may paste at the prompt (already stripped)
RedirectInputs == {"redirect-with-code", "redirect-denied"}

\* the outcomes of auth_flow.get_session(result): a session, or an exception
SessionOutcomes(pasted) ==
    IF pasted = "redirect-with-code"
    THEN {"session", "ClientError", "UberIllegalState", "ServerError"}
    ELSE {"ClientError", "UberIllegalState", "ServerError"}

\* variants of the except clause: only ClientError caught, everything caught
IsCaught_ClientOnly(error) == error = "ClientError"

IsCaught_All(error) == TRUE

\* except (ClientError, UberIllegalState) as error
IsCaught(error) == error \in {"ClientError", "UberIllegalState"}

\* response_print(login_message); result = input(...).strip()
Prompt ==
    /\ pc = "prompt"
    /\ out' = Append(out, TextLine("login"))
    /\ \E pasted \in RedirectInputs : result' = pasted
    /\ pc' = "exchange"
    /\ UNCHANGED << name_orig, name_dest, detail, file, storage, api_client,
                    products, response, raised, exit, now, iter >>

\* the file after open(storage_filename, 'w') and the write of the dump
Persisted(credential) == FileWith(safe_dump(credential_data(credential)))

\* session = auth_flow.get_session(result) succeeded: persist the
\* credential and return a client
ExchangeOk ==
    /\ pc = "exchange"
    /\ "session" \in SessionOutcomes(result)
    /\ \E token \in AccessTokens, life \in Lifetimes :
          LET credential == SessionCredential(token, now + life)
          IN  /\ file' = Persisted(credential)
              /\ api_client' = UberRidesClient(credential)
    /\ pc' = "products1"
    /\ UNCHANGED << name_orig, name_dest, detail, storage, result, products,
                    response, out, raised, exit, now, iter >>

\* variant of the failure path: the user is prompted again
ExchangeFail_Retry ==
    /\ pc = "exchange"
    /\ \E error \in SessionOutcomes(result) \ {"session"} :
          IF IsCaught(error)
          THEN /\ raised' = [at |-> "get_session", error |-> error]
               /\ out' = Append(out, TextLine("fail"))
               /\ api_client' = NoClient
               /\ pc' = "prompt"
               /\ UNCHANGED exit
          ELSE /\ Propagate("get_session", error, "")
               /\ UNCHANGED << out, api_client >>
    /\ UNCHANGED << name_orig, name_dest, detail, file, storage, result,
                    products, response, now, iter >>

\* get_session raised: an authorization failure is printed and the flow
\* returns None, anything else propagates
ExchangeFail ==
    /\ pc = "exchange"
    /\ \E error \in SessionOutcomes(result) \ {"session"} :
          IF IsCaught(error)
          THEN /\ raised' = [at |-> "get_session", error |-> error]
               /\ out' = Append(out, TextLine("fail"))
               /\ api_client' = NoClient
               /\ pc' = "products1"
               /\ UNCHANGED exit
          ELSE /\ Propagate("get_session", error, "")
               /\ UNCHANGED << out, api_client >>
    /\ UNCHANGED << name_orig, name_dest, detail, file, storage, result,
                    products, response, now, iter >>

(***************************************************************************)
(* _get_estimate_response, called for each direction, and the summary.    *)
(***************************************************************************)
ProductsPc(d) == IF d = 1 THEN "products1" ELSE "products2"

EstimatePc(d) == IF d = 1 THEN "estimate1" ELSE "estimate2"

\* the exceptions an API request may raise
RequestErrors == {"ClientError", "ServerError"}

\* resp = api_client.get_products(*orig.values());
\* products = resp.json.get('products')
GetProducts(d) ==
    /\ pc = ProductsPc(d)
    /\ IF api_client.none
       THEN /\ Propagate("get_products", "AttributeError", "")
            /\ UNCHANGED products
       ELSE \/ \E error \in RequestErrors :
                  /\ Propagate("get_products", error, "")
                  /\ UNCHANGED products
            \/ \E listed \in {<< >>, << "uberX" >>} :
                  /\ products' = [products EXCEPT ![d] = listed]
                  /\ pc' = EstimatePc(d)
                  /\ UNCHANGED << raised, exit >>
    /\ UNCHANGED << name_orig, name_dest, detail, file, storage, api_client,
                    result, response, out, now, iter >>

\* response = api_client.estimate_ride(product_id=products[0]..., ...)
EstimateRide(d) ==
    /\ pc = EstimatePc(d)
    /\ IF products[d] = << >>
       THEN /\ Propagate("estimate_ride", "IndexError", "")
            /\ UNCHANGED response
       ELSE \/ \E error \in RequestErrors :
                  /\ Propagate("estimate_ride", error, "")
                  /\ UNCHANGED response
            \/ \E fare \in BOOLEAN, quote \in Quotes :
                  /\ response' =
                        [response EXCEPT ![d] =
                            [request |->
                                EstimateRequest(products[d],
                                    LegOrig(d, name_orig, name_dest),
                                    LegDest(d, name_orig, name_dest)),
                             hasFare |-> fare,
                             display |-> IF fare THEN quote ELSE ""]]
                  /\ pc' = IF d = 1 THEN ProductsPc(2) ELSE "print"
                  /\ UNCHANGED << raised, exit >>
    /\ UNCHANGED << name_orig, name_dest, detail, file, storage, api_client,
                    result, products, out, now, iter >>

\* print('{time}: ...'.format(..., price1=response1.json.get('fare')
\* .get('display'), price2=...)); if detail: _print_detail(...) twice
PrintSummary ==
    /\ pc = "print"
    /\ IF response[1].hasFare /\ response[2].hasFare
       THEN /\ out' = Append(out, SummaryLine(now, name_orig, name_dest,
                                              response[1], response[2]))
                      \o DetailLines(detail)
            /\ pc' = "sleep"
            /\ UNCHANGED << raised, exit >>
       ELSE /\ Propagate("print", "AttributeError", "")
            /\ UNCHANGED out
    /\ UNCHANGED << name_orig, name_dest, detail, file, storage, api_client,
                    result, products, response, now, iter >>

\* time.sleep(300), then the loop calls get_estimate again
Sleep ==
    /\ pc = "sleep"
    /\ now' = now + SleepSeconds
    /\ pc' = "call"
    /\ UNCHANGED << name_orig, name_dest, detail, file, storage, api_client,
                    result, products, response, out, raised, exit, iter >>

(***************************************************************************)
(* The environment: the clock and the user's interrupt.                   *)
(***************************************************************************)
\* the steps that block on the console, the file system or the network
Blocking ==
    {"load", "prompt", "exchange", "products1", "estimate1", "products2",
     "estimate2", "sleep"}

\* a second passes while the process is blocked
Tick ==
    /\ pc \in Blocking
    /\ now - SleepSeconds * (iter - 1) < MaxDrift
    /\ now' = now + 1
    /\ UNCHANGED << pc, name_orig, name_dest, detail, file, storage, api_client,
                    result, products, response, out, raised, exit, iter >>

\* KeyboardInterrupt raised inside the try block, at any point of the
\* call or of the sleep
Interrupt ==
    /\ pc # "done"
    /\ Propagate("signal", "KeyboardInterrupt", "")
    /\ UNCHANGED << name_orig, name_dest, detail, file, storage, api_client,
                    result, products, response, out, now, iter >>

Next ==
    \/ Call
    \/ CheckPlaces
    \/ LoadStorage
    \/ Decide
    \/ Prompt
    \/ ExchangeOk
    \/ ExchangeFail
    \/ \E d \in {1, 2} : GetProducts(d)
    \/ \E d \in {1, 2} : EstimateRide(d)
    \/ PrintSummary
    \/ Sleep
    \/ Tick
    \/ Interrupt

Spec == Init /\ [][Next]_vars

\* time.sleep returns and the loop goes on: the only steps the script is
\* sure to take (the console, the network and the user may never answer)
FairSpec == Spec /\ WF_vars(Sleep) /\ WF_vars(Call)

(***************************************************************************)
(* Properties.                                                            *)
(***************************************************************************)
\* whether a line of the given kind was printed in the current call
HasLine(kind) == \E i \in DOMAIN out : out[i].kind = kind

\* whether the step taken is the user's interrupt
Interrupted == raised'.error = "KeyboardInterrupt"

\* the credential file read as a mapping, when every line has a key
FileReadable == file.exists /\ \A i \in DOMAIN file.text : file.text[i].key # ""

FileDict ==
    [k \in {file.text[i].key : i \in DOMAIN file.text} |->
        LET i == CHOOSE j \in DOMAIN file.text : file.text[j].key = k
        IN  file.text[i].val]

FileHasExpiry == FileReadable /\ "expires_in_seconds" \in DOMAIN FileDict

FileExpiry == FileDict["expires_in_seconds"].n

\* the client get_estimate holds was built from the loaded data
StoredClient == ~api_client.none /\ api_client.credential = storage.dict

\* C1: with known places, when the credential file exists and the expiry it
\* holds is strictly greater than the current time, the decision builds the
\* client from the stored credential, and the interactive flow (login
\* message, console input, token exchange) is not run in that iteration.
C1_FreshCredentialReused ==
    /\ [][(pc = "decide" /\ FileHasExpiry /\ now < FileExpiry /\ ~Interrupted)
            => /\ pc' = "products1"
               /\ api_client' = [none |-> FALSE, credential |-> FileDict]
               /\ UNCHANGED << out, file, result >>]_vars
    /\ [](StoredClient => ~HasLine("login") /\ pc \notin {"prompt", "exchange"})

C1_Witness ==
    /\ pc = "products1"
    /\ StoredClient
    /\ FileHasExpiry
    /\ ~HasLine("login")

\* C2: with known places, when no credential file exists or the stored
\* expiry is in the past, the decision enters the interactive flow with no
\* client built; and whenever a client is built from the stored data, the
\* stored expiry was compared with the current time and found in the future.
C2_StaleCredentialNotUsed ==
    /\ [][(/\ pc = "decide"
           /\ ~file.exists \/ (FileHasExpiry /\ FileExpiry < now)
           /\ ~Interrupted)
            => (pc' = "prompt" /\ api_client'.none)]_vars
    /\ [][(pc = "prompt" /\ ~Interrupted /\ pc' # pc)
            => (pc' = "exchange" /\ out' = Append(out, TextLine("login")))]_vars
    /\ [][(StoredClient' /\ api_client' # api_client)
            => (FileHasExpiry /\ now < FileExpiry)]_vars

C2_Witness ==
    /\ pc = "exchange"
    /\ HasLine("login")
    /\ FileHasExpiry
    /\ FileExpiry < now

NamesUnknown ==
    name_orig \notin {"home", "work"} \/ name_dest \notin {"home", "work"}

\* C3: when either name passed to get_estimate is not a key of places, the
\* process terminates at once with 'one or both unknown place names': the
\* credential file is not read, no flow is started, no API call is made
\* and no line is printed.
C3_UnknownPlaceExits ==
    /\ [][(pc = "places" /\ NamesUnknown /\ ~Interrupted)
            => /\ pc' = "done"
               /\ exit' = [kind |-> "SystemExit",
                           msg |-> "one or both unknown place names"]
               /\ UNCHANGED << file, storage, api_client, products, response,
                               out >>]_vars
    /\ [](NamesUnknown
            => /\ pc \in {"call", "places", "done"}
               /\ storage = NoneValue
               /\ api_client.none
               /\ out = << >>
               /\ \A d \in {1, 2} : products[d] = << >> /\ response[d] = NoResponse)

C3_Witness ==
    /\ NamesUnknown
    /\ pc = "done"
    /\ exit.msg = "one or both unknown place names"

SummaryCount == Cardinality({i \in DOMAIN out : out[i].kind = "summary"})

AnswersTrip(r, from, to) ==
    /\ r.hasFare
    /\ r.request.start = places[from]
    /\ r.request.end = places[to]

\* C4: when both estimate requests of an iteration return a fare, exactly one
\* summary line is printed; it is labelled with the two place names in call
\* order, its first price is the fare display of the response to the
\* origin->destination request and its second price that of the response to
\* the destination->origin request.
C4_SummaryHasBothFares ==
    /\ [][(pc = "print" /\ response[1].hasFare /\ response[2].hasFare
             /\ ~Interrupted)
            => (pc' = "sleep" /\ SummaryCount' = 1)]_vars
    /\ [](SummaryCount <= 1)
    /\ [](\A i \in DOMAIN out :
            out[i].kind = "summary"
            => /\ out[i].place1 = name_orig
               /\ out[i].place2 = name_dest
               /\ AnswersTrip(response[1], name_orig, name_dest)
               /\ out[i].price1 = response[1].display
               /\ AnswersTrip(response[2], name_dest, name_orig)
               /\ out[i].price2 = response[2].display)

C4_Witness ==
    /\ pc = "sleep"
    /\ SummaryCount = 1
    /\ name_orig # name_dest
    /\ response[1].display # response[2].display

\* C5: when the token exchange raises ClientError or UberIllegalState, the
\* error is printed, the flow returns no client, and the credential file is
\* left as it was (neither created nor overwritten).
C5_AuthFailureCaught ==
    [][(/\ pc = "exchange"
        /\ raised'.at = "get_session"
        /\ raised'.error \in {"ClientError", "UberIllegalState"})
         => /\ out' = Append(out, TextLine("fail"))
            /\ api_client'.none
            /\ pc' = "products1"
            /\ file' = file
            /\ exit' = Running]_vars

C5_Witness ==
    /\ pc = "products1"
    /\ raised = [at |-> "get_session", error |-> "UberIllegalState"]
    /\ HasLine("fail")
    /\ ~file.exists

\* C6: the main loop repeats get_estimate followed by a 300-second sleep:
\* the sleep of an iteration is followed by the next call; a user interrupt
\* can arrive at any point before the process has ended, it ends the process
\* with 'exiting by user', and an ended process starts nothing more.
C6_LoopUntilInterrupted ==
    /\ [][(pc = "sleep" /\ pc' # pc /\ ~Interrupted)
            => (pc' = "call" /\ now' = now + SleepSeconds)]_vars
    /\ [][(pc = "call" /\ pc' # pc /\ ~Interrupted)
            => (pc' = "places" /\ iter' = iter + 1)]_vars
    /\ [](pc # "done" => ENABLED Interrupt)
    /\ [][Interrupted
            => /\ pc' = "done"
               /\ exit' = [kind |-> "SystemExit", msg |-> "exiting by user"]
               /\ iter' = iter]_vars
    /\ [][pc = "done" => (pc' = "done" /\ iter' = iter)]_vars
    /\ (pc = "sleep" /\ iter < MaxIter)
          ~> (pc = "places" \/ exit.msg = "exiting by user")

C6_Witness ==
    /\ iter >= 2
    /\ pc = "done"
    /\ exit.msg = "exiting by user"
    /\ HasLine("summary")

OtherFailure ==
    /\ raised.error \notin {"", "KeyboardInterrupt", "SystemExit"}
    /\ ~(raised.at = "get_session"
         /\ raised.error \in {"ClientError", "UberIllegalState"})

\* C7: every failure other than an authorization failure of the token
\* exchange and the unknown-place exit propagates uncaught: the process ends
\* with that exception, the iteration prints no summary line, and the loop
\* neither sleeps nor calls again.
C7_OtherFailuresPropagate ==
    OtherFailure
    => /\ pc = "done"
       /\ exit = [kind |-> "uncaught", msg |-> raised.error]
       /\ ~HasLine("summary")
       /\ ~ENABLED (Call \/ Sleep)

C7_Witness ==
    /\ iter >= 2
    /\ pc = "done"
    /\ raised = [at |-> "estimate_ride", error |-> "ServerError"]

EightFields ==
    {"client_id", "redirect_url", "access_token", "expires_in_seconds",
     "scopes", "grant_type", "client_secret", "refresh_token"}

\* C8: the credential file changes only when an authorization flow succeeds,
\* and then holds the eight fields of the new credential; what an iteration
\* loads is what the file holds; so an iteration starting before the
\* persisted expiry reuses the stored credential without running the flow
\* and leaves the file unchanged.
C8_PersistedCredentialReused ==
    /\ [][file' # file
            => /\ pc = "exchange"
               /\ pc' = "products1"
               /\ ~api_client'.none
               /\ FileReadable'
               /\ DOMAIN FileDict' = EightFields
               /\ \A k \in EightFields :
                     /\ FileDict'[k].s = api_client'.credential[k].s
                     /\ FileDict'[k].n = api_client'.credential[k].n]_vars
    /\ [](pc = "decide" /\ FileReadable /\ file.text # << >>
            => storage = [isNone |-> FALSE, dict |-> FileDict])
    /\ [][(pc = "decide" /\ FileHasExpiry /\ now < FileExpiry /\ iter > 1
             /\ ~Interrupted)
            => (StoredClient' /\ pc' = "products1" /\ file' = file
                  /\ ~HasLine("login")')]_vars

C8_Witness ==
    /\ iter = 2
    /\ pc = "products1"
    /\ StoredClient
    /\ FileHasExpiry
    /\ FileExpiry = 3 * SleepSeconds

\* C9: after an authorization failure get_estimate goes on without a
\* client: no product or estimate request succeeds, no summary line is
\* printed, the first client call raises AttributeError, which nothing
\* catches, and the process ends without prompting again.
C9_AuthFailureEndsProcess ==
    /\ [](HasLine("fail")
            => /\ api_client.none
               /\ \A d \in {1, 2} : products[d] = << >> /\ response[d] = NoResponse
               /\ ~HasLine("summary")
               /\ pc \in {"products1", "done"})
    /\ [][(HasLine("fail") /\ pc' # pc /\ ~Interrupted)
            => (pc' = "done"
                  /\ exit' = [kind |-> "uncaught", msg |-> "AttributeError"])]_vars

C9_Witness ==
    /\ HasLine("fail")
    /\ pc = "done"
    /\ exit.msg = "AttributeError"

LoadedFresh ==
    /\ ~storage.isNone
    /\ DOMAIN storage.dict # {}
    /\ "expires_in_seconds" \in DOMAIN storage.dict
    /\ now < storage.dict["expires_in_seconds"].n

\* C10: the stored credential is reused exactly when the loaded data is
\* non-empty, holds 'expires_in_seconds', and the current time is strictly
\* less than it; otherwise (the times equal, the file empty, the field
\* missing) the interactive flow is entered and no error is raised.
C10_ReuseIsStrictAndTotal ==
    [][(pc = "decide" /\ ~Interrupted)
         => IF LoadedFresh
            THEN pc' = "products1" /\ StoredClient'
            ELSE /\ pc' = "prompt"
                 /\ api_client'.none
                 /\ exit' = Running
                 /\ raised' = raised]_vars

C10_Witness ==
    /\ pc = "prompt"
    /\ ~storage.isNone
    /\ "expires_in_seconds" \in DOMAIN storage.dict
    /\ storage.dict["expires_in_seconds"].n = now
    /\ now > 0

====
